---- MODULE Spec2Model ----
(***************************************************************************)
(* Model of netmon.py: NetworkMonitor.run (main thread: lifecycle and      *)
(* collector loop), ping_worker and speedtest_worker (daemon threads),     *)
(* the shared flag self.running and the shared queue self.metric_queue.    *)
(*                                                                         *)
(* Time is counted in whole seconds.  A stored timestamp (last_ping,       *)
(* last_speedtest, the local now of a probe call) is kept as the number of *)
(* seconds elapsed since it was taken; the code only ever compares such a  *)
(* difference with an interval, so the elapsed time saturates there.       *)
(***************************************************************************)
EXTENDS Integers, Sequences, FiniteSets, TLC

\* ------------------------------------------------------------ constants
PING_INTERVAL == 10
SPEEDTEST_INTERVAL == 60
SPEEDTEST_POLL == 1
JOIN_TIMEOUT == 5
None == -1

\* ------------------------------------------------------------ bounds
\* metric_queue is Queue(): unbounded.  Queue lengths up to MaxQueue are
\* explored: a probe does not return a value while the queue is that long.
MaxQueue == 2
\* Each worker's samples are numbered 1.. in the order it puts them; up to
\* MaxEmit samples per worker are explored.
MaxEmit == 2

\* ------------------------------------------------------------ inputs
\* Delays ping3.ping may return (it may also return None or False, or raise).
Delays == {1}
\* Rates speedtest's download() and upload() may return.
Downloads == {3}
Uploads == {4}

VARIABLES
    running,          \* self.running
    last_ping,        \* self.last_ping: None, or seconds elapsed since that time
    last_speedtest,   \* self.last_speedtest: None, or seconds elapsed since that time
    metric_queue,     \* self.metric_queue: sequence of samples, oldest first
    mainPc,           \* position of run() in the main thread
    pingPc,           \* position of ping_worker ("idle": thread not started)
    speedPc,          \* position of speedtest_worker ("idle": thread not started)
    pingTimer,        \* seconds left of ping_worker's time.sleep
    speedTimer,       \* seconds left of speedtest_worker's time.sleep
    joinTimer,        \* seconds left of the join(timeout=5) in progress
    pingNow,          \* seconds elapsed since now = datetime.now() in get_ping_stats
    speedNow,         \* seconds elapsed since now = datetime.now() in get_speed_test
    current,          \* the sample run() has taken off the queue, NoSample if none
    sinkCallers,      \* execution contexts inside influx_client.write
    sinkPoint,        \* fields of the point handed to influx_client.write, {} if none
    \* history variables
    emitted,          \* per kind: number of samples the worker has put
    dequeued,         \* per kind: number of samples run() has taken off the queue
    writeCalls,       \* per kind: number of influx_client.write calls issued
    sincePingCall,    \* None, or seconds elapsed since the latest ping3.ping call began
    sinceSpeedCall,   \* None, or seconds elapsed since the latest speedtest run began
    atStop            \* metric_queue as it was when the shutdown signal arrived

vars == <<running, last_ping, last_speedtest, metric_queue, mainPc, pingPc, speedPc,
          pingTimer, speedTimer, joinTimer, pingNow, speedNow, current, sinkCallers,
          sinkPoint, emitted, dequeued, writeCalls, sincePingCall,
          sinceSpeedCall, atStop>>

Kinds == {"ping", "speed"}

\* A sample is the tuple (metric_type, value) of the code, with two history
\* fields: seq numbers the samples of one worker in the order it put them, and
\* probe tells what the measurement call did ("reply": ping3.ping returned a
\* delay, "error": it returned its error result False, "ok": the speedtest run
\* returned both rates).
Sample(kind, seq, value, probe) ==
    [kind |-> kind, seq |-> seq, value |-> value, probe |-> probe]

NoSample == Sample("none", 0, << >>, "none")

Zero == [k \in Kinds |-> 0]

Min(a, b) == IF a <= b THEN a ELSE b

\* Seconds elapsed since a stored time, d seconds later (saturating at cap).
Older(t, d, cap) == IF t = None THEN None ELSE Min(t + d, cap)

\* Seconds left of a sleep or timeout, d seconds later.
Less(t, d) == IF t > d THEN t - d ELSE 0

\* ------------------------------------------------------------ construction
Init ==
    /\ running = FALSE
    /\ last_ping = None
    /\ last_speedtest = None
    /\ metric_queue = << >>
    /\ mainPc = "start"
    /\ pingPc = "idle"
    /\ speedPc = "idle"
    /\ pingTimer = 0
    /\ speedTimer = 0
    /\ joinTimer = 0
    /\ pingNow = 0
    /\ speedNow = 0
    /\ current = NoSample
    /\ sinkCallers = {}
    /\ sinkPoint = {}
    /\ emitted = Zero
    /\ dequeued = Zero
    /\ writeCalls = Zero
    /\ sincePingCall = None
    /\ sinceSpeedCall = None
    /\ atStop = << >>

\* ------------------------------------------------------------ ping_worker
\* A gate that treats "no ping recorded yet" as "not due".
PingDueOnlyAfterSuccess == last_ping # None /\ last_ping >= PING_INTERVAL

\* get_ping_stats, line 146-147: the interval gate.
PingDue == last_ping = None \/ last_ping >= PING_INTERVAL

\* line 148: ping3.ping(PING_TARGET) * 1000 for a delay r, and for the error
\* result False (False * 1000 is 0 in Python).
PingMs(tag, r) == IF tag = "error" THEN 0 ELSE r * 1000

\* What ping3.ping does: "reply" (returns a delay), "timeout" (returns None, so
\* None * 1000 raises TypeError), "error" (returns False), "raise" (raises).
PingResults == {"reply", "timeout", "error", "raise"}

\* line 148-154: whether get_ping_stats returns a ping_time (not None).
PingHasValue(tag) == tag \in {"reply", "error"}

\* A get_ping_stats without its try/except: a failed measurement ends the thread.
PingDiesOnFailure(tag) == IF PingHasValue(tag) THEN "sleep" ELSE "done"

\* line 152-154, 206: where ping_worker goes after the call of get_ping_stats:
\* an exception is caught and logged inside get_ping_stats, so the worker
\* sleeps whatever the call did.
PingAfterCall(tag) == "sleep"

\* A worker that writes its sample to the sink itself.
PingWritesSink(s) ==
    /\ sinkCallers' = sinkCallers \cup {"ping_worker"}
    /\ sinkPoint' = {<<"ping_ms", s.value[1]>>}
    /\ emitted' = [emitted EXCEPT !["ping"] = @ + 1]
    /\ UNCHANGED metric_queue

\* A channel that hands a sample over only while the collector is not inside a
\* sink write: the put of a worker waits for the write to return.
PutWaitsForCollector(s) ==
    /\ mainPc # "write"
    /\ metric_queue' = Append(metric_queue, s)
    /\ emitted' = [emitted EXCEPT !["ping"] = @ + 1]
    /\ UNCHANGED <<sinkCallers, sinkPoint>>

\* line 205: self.metric_queue.put(('ping', ping_time))
PingPut(s) ==
    /\ metric_queue' = Append(metric_queue, s)
    /\ emitted' = [emitted EXCEPT !["ping"] = @ + 1]
    /\ UNCHANGED <<sinkCallers, sinkPoint>>

\* A ping loop that does not test the flag (while True).
PingLoopsForever ==
    /\ pingPc = "check"
    /\ mainPc # "done"
    /\ pingPc' = "call"
    /\ UNCHANGED <<running, last_ping, last_speedtest, metric_queue, mainPc, speedPc,
                   pingTimer, speedTimer, joinTimer, pingNow, speedNow, current,
                   sinkCallers, sinkPoint, emitted, dequeued, writeCalls,
                   sincePingCall, sinceSpeedCall, atStop>>

\* line 200: while self.running
PingCheck ==
    /\ pingPc = "check"
    /\ mainPc # "done"
    /\ pingPc' = IF running THEN "call" ELSE "done"
    /\ UNCHANGED <<running, last_ping, last_speedtest, metric_queue, mainPc, speedPc,
                   pingTimer, speedTimer, joinTimer, pingNow, speedNow, current,
                   sinkCallers, sinkPoint, emitted, dequeued, writeCalls,
                   sincePingCall, sinceSpeedCall, atStop>>

\* line 202, 145-148: get_ping_stats takes now and either starts ping3.ping or
\* returns None (line 151), after which the worker sleeps (line 206).
PingCall ==
    /\ pingPc = "call"
    /\ mainPc # "done"
    /\ pingNow' = 0
    /\ IF PingDue
         THEN /\ pingPc' = "probe"
              /\ sincePingCall' = 0
              /\ pingTimer' = 0
         ELSE /\ pingPc' = "sleep"
              /\ pingTimer' = PING_INTERVAL
              /\ UNCHANGED sincePingCall
    /\ UNCHANGED <<running, last_ping, last_speedtest, metric_queue, mainPc, speedPc,
                   speedTimer, joinTimer, speedNow, current, sinkCallers, sinkPoint,
                   emitted, dequeued, writeCalls, sinceSpeedCall, atStop>>

\* line 148-154, 203-206: ping3.ping returns or raises; on a value last_ping is
\* set to now and the sample is put; then the worker sleeps.
PingReturn ==
    /\ pingPc = "probe"
    /\ mainPc # "done"
    /\ \E tag \in PingResults, r \in Delays :
         /\ IF PingHasValue(tag)
              THEN /\ emitted["ping"] < MaxEmit
                   /\ Len(metric_queue) < MaxQueue
                   /\ last_ping' = pingNow
                   /\ PingPut(Sample("ping", emitted["ping"] + 1, <<PingMs(tag, r)>>, tag))
              ELSE UNCHANGED <<last_ping, metric_queue, emitted, sinkCallers, sinkPoint>>
         /\ pingPc' = PingAfterCall(tag)
    /\ pingTimer' = PING_INTERVAL
    /\ pingNow' = 0
    /\ UNCHANGED <<running, last_speedtest, mainPc, speedPc, speedTimer, joinTimer,
                   speedNow, current, dequeued, writeCalls, sincePingCall,
                   sinceSpeedCall, atStop>>

\* A time.sleep that may return before its time is over.
PingWakesEarly ==
    /\ pingPc = "sleep"
    /\ mainPc # "done"
    /\ pingPc' = "check"
    /\ UNCHANGED <<running, last_ping, last_speedtest, metric_queue, mainPc, speedPc,
                   pingTimer, speedTimer, joinTimer, pingNow, speedNow, current,
                   sinkCallers, sinkPoint, emitted, dequeued, writeCalls,
                   sincePingCall, sinceSpeedCall, atStop>>

\* line 206: time.sleep(PING_INTERVAL) returns
PingWake ==
    /\ pingPc = "sleep"
    /\ mainPc # "done"
    /\ pingTimer = 0
    /\ pingPc' = "check"
    /\ UNCHANGED <<running, last_ping, last_speedtest, metric_queue, mainPc, speedPc,
                   pingTimer, speedTimer, joinTimer, pingNow, speedNow, current,
                   sinkCallers, sinkPoint, emitted, dequeued, writeCalls,
                   sincePingCall, sinceSpeedCall, atStop>>

\* ------------------------------------------------------------ speedtest_worker
\* A gate that lets a speedtest run start at every poll after the first second.
SpeedDueEveryPoll == last_speedtest = None \/ last_speedtest >= SPEEDTEST_POLL

\* get_speed_test, line 185-186: the interval gate.
SpeedDue == last_speedtest = None \/ last_speedtest >= SPEEDTEST_INTERVAL

\* What the speedtest run of line 188-190 does: "ok" (all three calls return),
\* or get_best_server, download or upload raises.
SpeedResults == {"ok", "server_error", "download_error", "upload_error"}

\* A get_speed_test that returns the download rate when only upload() raised.
SpeedHasPartialValue(tag) == tag \in {"ok", "upload_error"}

\* line 216: download_speed is not None and upload_speed is not None
SpeedHasValue(tag) == tag = "ok"

\* line 194-196, 222: where speedtest_worker goes after the call of
\* get_speed_test: an exception is caught and logged inside get_speed_test, so
\* the worker sleeps whatever the run did.
SpeedAfterCall(tag) == "sleep"

\* line 221: self.metric_queue.put(('speed', (download_speed, upload_speed)))
SpeedPut(s) ==
    /\ metric_queue' = Append(metric_queue, s)
    /\ emitted' = [emitted EXCEPT !["speed"] = @ + 1]
    /\ UNCHANGED <<sinkCallers, sinkPoint>>

\* line 213: while self.running
SpeedCheck ==
    /\ speedPc = "check"
    /\ mainPc # "done"
    /\ speedPc' = IF running THEN "call" ELSE "done"
    /\ UNCHANGED <<running, last_ping, last_speedtest, metric_queue, mainPc, pingPc,
                   pingTimer, speedTimer, joinTimer, pingNow, speedNow, current,
                   sinkCallers, sinkPoint, emitted, dequeued, writeCalls,
                   sincePingCall, sinceSpeedCall, atStop>>

\* line 215, 184-188: get_speed_test takes now and either starts the speedtest
\* run or returns (None, None) (line 193), after which the worker sleeps one
\* second (line 222).
SpeedCall ==
    /\ speedPc = "call"
    /\ mainPc # "done"
    /\ speedNow' = 0
    /\ IF SpeedDue
         THEN /\ speedPc' = "probe"
              /\ sinceSpeedCall' = 0
              /\ speedTimer' = 0
         ELSE /\ speedPc' = "sleep"
              /\ speedTimer' = SPEEDTEST_POLL
              /\ UNCHANGED sinceSpeedCall
    /\ UNCHANGED <<running, last_ping, last_speedtest, metric_queue, mainPc, pingPc,
                   pingTimer, joinTimer, pingNow, current, sinkCallers, sinkPoint,
                   emitted, dequeued, writeCalls, sincePingCall, atStop>>

\* A speedtest worker under a cooldown shared by both loops: a successful run
\* also resets the time the ping gate reads.
SpeedReturnSharedCooldown ==
    /\ speedPc = "probe"
    /\ mainPc # "done"
    /\ \E tag \in SpeedResults, d \in Downloads, u \in Uploads :
         /\ IF SpeedHasValue(tag)
              THEN /\ emitted["speed"] < MaxEmit
                   /\ Len(metric_queue) < MaxQueue
                   /\ last_speedtest' = speedNow
                   /\ last_ping' = speedNow
                   /\ SpeedPut(Sample("speed", emitted["speed"] + 1, <<d, u>>, tag))
              ELSE UNCHANGED <<last_ping, last_speedtest, metric_queue, emitted,
                               sinkCallers, sinkPoint>>
         /\ speedPc' = SpeedAfterCall(tag)
    /\ speedTimer' = SPEEDTEST_POLL
    /\ speedNow' = 0
    /\ UNCHANGED <<running, mainPc, pingPc, pingTimer, joinTimer, pingNow,
                   current, dequeued, writeCalls, sincePingCall, sinceSpeedCall, atStop>>

\* line 188-196, 216-222: the speedtest run returns or raises; on success
\* last_speedtest is set to now and the sample is put; then the worker sleeps
\* one second.
SpeedReturn ==
    /\ speedPc = "probe"
    /\ mainPc # "done"
    /\ \E tag \in SpeedResults, d \in Downloads, u \in Uploads :
         /\ IF SpeedHasValue(tag)
              THEN /\ emitted["speed"] < MaxEmit
                   /\ Len(metric_queue) < MaxQueue
                   /\ last_speedtest' = speedNow
                   /\ SpeedPut(Sample("speed", emitted["speed"] + 1, <<d, u>>, tag))
              ELSE UNCHANGED <<last_speedtest, metric_queue, emitted, sinkCallers, sinkPoint>>
         /\ speedPc' = SpeedAfterCall(tag)
    /\ speedTimer' = SPEEDTEST_POLL
    /\ speedNow' = 0
    /\ UNCHANGED <<running, last_ping, mainPc, pingPc, pingTimer, joinTimer, pingNow,
                   current, dequeued, writeCalls, sincePingCall, sinceSpeedCall, atStop>>

\* line 222: time.sleep(1) returns
SpeedWake ==
    /\ speedPc = "sleep"
    /\ mainPc # "done"
    /\ speedTimer = 0
    /\ speedPc' = "check"
    /\ UNCHANGED <<running, last_ping, last_speedtest, metric_queue, mainPc, pingPc,
                   pingTimer, speedTimer, joinTimer, pingNow, speedNow, current,
                   sinkCallers, sinkPoint, emitted, dequeued, writeCalls,
                   sincePingCall, sinceSpeedCall, atStop>>

\* ------------------------------------------------------------ time
\* d seconds pass: every stored time is d seconds older, every sleep and
\* timeout in progress has d seconds less to go.  The process has exited once
\* run() has returned (both workers are daemon threads).
Tick(d) ==
    /\ mainPc # "done"
    /\ last_ping' = Older(last_ping, d, PING_INTERVAL)
    /\ last_speedtest' = Older(last_speedtest, d, SPEEDTEST_INTERVAL)
    /\ sincePingCall' = Older(sincePingCall, d, PING_INTERVAL)
    /\ sinceSpeedCall' = Older(sinceSpeedCall, d, SPEEDTEST_INTERVAL)
    /\ pingNow' = IF pingPc = "probe" THEN Older(pingNow, d, PING_INTERVAL) ELSE pingNow
    /\ speedNow' = IF speedPc = "probe" THEN Older(speedNow, d, SPEEDTEST_INTERVAL)
                   ELSE speedNow
    /\ pingTimer' = Less(pingTimer, d)
    /\ speedTimer' = Less(speedTimer, d)
    /\ joinTimer' = Less(joinTimer, d)
    /\ UNCHANGED <<running, metric_queue, mainPc, pingPc, speedPc, current, sinkCallers,
                   sinkPoint, emitted, dequeued, writeCalls, atStop>>

\* ------------------------------------------------------------ run()
\* write_to_influx, line 160-168: the fields of the point, one per argument
\* that is not None.
PointFields(ping_time, download_speed, upload_speed) ==
    (IF ping_time # None THEN {<<"ping_ms", ping_time>>} ELSE {})
    \cup (IF download_speed # None THEN {<<"download_speed", download_speed>>} ELSE {})
    \cup (IF upload_speed # None THEN {<<"upload_speed", upload_speed>>} ELSE {})

\* A run() without the 'speed' branch: a 'speed' sample yields no point.
PointOfPingOnly(s) ==
    IF s.kind = "ping" THEN PointFields(s.value[1], None, None)
    ELSE {}

\* A run() that hands the two rates of a 'speed' sample over in the wrong order.
PointOfSwapped(s) ==
    IF s.kind = "ping" THEN PointFields(s.value[1], None, None)
    ELSE IF s.kind = "speed" THEN PointFields(None, s.value[2], s.value[1])
    ELSE {}

\* line 247-254: the arguments run() gives write_to_influx for a sample.
PointOf(s) ==
    IF s.kind = "ping" THEN PointFields(s.value[1], None, None)
    ELSE IF s.kind = "speed" THEN PointFields(None, s.value[1], s.value[2])
    ELSE {}

\* A queue.LifoQueue in place of queue.Queue: get takes the newest sample.
LifoGet(q) == <<q[Len(q)], SubSeq(q, 1, Len(q) - 1)>>

\* line 36, 135, 244: queue.Queue is first in, first out: get takes the oldest
\* sample off the queue.  <<the sample, the queue after>>
QueueGet(q) == <<Head(q), Tail(q)>>

\* A collector that puts the sample back when its write failed.
RequeueAfterWriteError(q, s) == Append(q, s)

\* line 178-179: a failed write is logged; the queue is left as it is.
QueueAfterWriteError(q, s) == q

\* join() without a timeout: returns only when the thread has ended.
JoinForever(workerPc, timer) == workerPc = "done"

\* line 271-272: join(timeout=5) returns when the thread has ended or the
\* timeout has run out.
JoinReturns(workerPc, timer) == workerPc = "done" \/ timer = 0

\* line 231-235: self.running = True, the two Thread objects are created
RunBegin ==
    /\ mainPc = "start"
    /\ running' = TRUE
    /\ mainPc' = "spawn"
    /\ UNCHANGED <<last_ping, last_speedtest, metric_queue, pingPc, speedPc, pingTimer,
                   speedTimer, joinTimer, pingNow, speedNow, current, sinkCallers,
                   sinkPoint, emitted, dequeued, writeCalls, sincePingCall,
                   sinceSpeedCall, atStop>>

\* line 237: self.ping_thread.start()
StartPing ==
    /\ mainPc = "spawn"
    /\ pingPc' = "check"
    /\ mainPc' = "spawn2"
    /\ UNCHANGED <<running, last_ping, last_speedtest, metric_queue, speedPc, pingTimer,
                   speedTimer, joinTimer, pingNow, speedNow, current, sinkCallers,
                   sinkPoint, emitted, dequeued, writeCalls, sincePingCall,
                   sinceSpeedCall, atStop>>

\* line 238: self.speedtest_thread.start()
StartSpeed ==
    /\ mainPc = "spawn2"
    /\ speedPc' = "check"
    /\ mainPc' = "loop"
    /\ UNCHANGED <<running, last_ping, last_speedtest, metric_queue, pingPc, pingTimer,
                   speedTimer, joinTimer, pingNow, speedNow, current, sinkCallers,
                   sinkPoint, emitted, dequeued, writeCalls, sincePingCall,
                   sinceSpeedCall, atStop>>

\* line 241-244, 256-257: while self.running; metric_queue.get(timeout=1) returns
\* the oldest sample, or raises Empty after the timeout and the loop continues.
CollectorGet ==
    /\ mainPc = "loop"
    /\ IF ~running
         THEN /\ mainPc' = "finally"
              /\ UNCHANGED <<metric_queue, current, dequeued>>
         ELSE IF metric_queue = << >>
           THEN UNCHANGED <<mainPc, metric_queue, current, dequeued>>
           ELSE /\ current' = QueueGet(metric_queue)[1]
                /\ metric_queue' = QueueGet(metric_queue)[2]
                /\ dequeued' = [dequeued EXCEPT ![QueueGet(metric_queue)[1].kind] = @ + 1]
                /\ mainPc' = "got"
    /\ UNCHANGED <<running, last_ping, last_speedtest, pingPc, speedPc, pingTimer,
                   speedTimer, joinTimer, pingNow, speedNow, sinkCallers, sinkPoint,
                   emitted, writeCalls, sincePingCall, sinceSpeedCall, atStop>>

\* line 247-254, 160-173: write_to_influx builds the point and calls
\* influx_client.write (no call when the point would have no field).
CollectorWrite ==
    /\ mainPc = "got"
    /\ IF PointOf(current) # {}
         THEN /\ sinkPoint' = PointOf(current)
              /\ sinkCallers' = sinkCallers \cup {"main"}
              /\ writeCalls' = [writeCalls EXCEPT ![current.kind] = @ + 1]
              /\ mainPc' = "write"
              /\ UNCHANGED current
         ELSE /\ current' = NoSample
              /\ mainPc' = "loop"
              /\ UNCHANGED <<sinkPoint, sinkCallers, writeCalls>>
    /\ UNCHANGED <<running, last_ping, last_speedtest, metric_queue, pingPc, speedPc,
                   pingTimer, speedTimer, joinTimer, pingNow, speedNow, emitted,
                   dequeued, sincePingCall, sinceSpeedCall, atStop>>

\* line 173-178: influx_client.write returns, or raises and is caught; the
\* sample is not put back.
CollectorWritten ==
    /\ mainPc = "write"
    /\ \E outcome \in {"ok", "failed"} :
         IF outcome = "failed"
           THEN /\ metric_queue' = QueueAfterWriteError(metric_queue, current)
                /\ mainPc' = "write_failed"
           ELSE /\ mainPc' = "loop"
                /\ UNCHANGED metric_queue
    /\ sinkCallers' = sinkCallers \ {"main"}
    /\ sinkPoint' = {}
    /\ current' = NoSample
    /\ UNCHANGED <<running, last_ping, last_speedtest, pingPc, speedPc, pingTimer,
                   speedTimer, joinTimer, pingNow, speedNow, emitted, dequeued,
                   writeCalls, sincePingCall, sinceSpeedCall, atStop>>

\* line 179: the failed write is logged; write_to_influx returns and the loop
\* goes on.
CollectorLogged ==
    /\ mainPc = "write_failed"
    /\ mainPc' = "loop"
    /\ UNCHANGED <<running, last_ping, last_speedtest, metric_queue, pingPc, speedPc,
                   pingTimer, speedTimer, joinTimer, pingNow, speedNow, current,
                   sinkCallers, sinkPoint, emitted, dequeued, writeCalls,
                   sincePingCall, sinceSpeedCall, atStop>>

\* line 262-263: KeyboardInterrupt reaches the main thread anywhere inside the
\* try block of run(); whatever run() was doing is abandoned.
Interrupt ==
    /\ mainPc \in {"start", "spawn", "spawn2", "loop", "got", "write", "write_failed"}
    /\ mainPc' = "finally"
    /\ atStop' = metric_queue
    /\ sinkCallers' = sinkCallers \ {"main"}
    /\ sinkPoint' = {}
    /\ current' = NoSample
    /\ UNCHANGED <<running, last_ping, last_speedtest, metric_queue, pingPc, speedPc,
                   pingTimer, speedTimer, joinTimer, pingNow, speedNow, emitted,
                   dequeued, writeCalls, sincePingCall, sinceSpeedCall>>

\* A finally block that does not clear the flag.
FinallyLeavesFlag ==
    /\ mainPc = "finally"
    /\ mainPc' = "join_ping"
    /\ joinTimer' = JOIN_TIMEOUT
    /\ UNCHANGED <<running, last_ping, last_speedtest, metric_queue, pingPc, speedPc,
                   pingTimer, speedTimer, pingNow, speedNow, current, sinkCallers,
                   sinkPoint, emitted, dequeued, writeCalls, sincePingCall,
                   sinceSpeedCall, atStop>>

\* line 266: self.running = False
Finally ==
    /\ mainPc = "finally"
    /\ running' = FALSE
    /\ mainPc' = "join_ping"
    /\ joinTimer' = JOIN_TIMEOUT
    /\ UNCHANGED <<last_ping, last_speedtest, metric_queue, pingPc, speedPc, pingTimer,
                   speedTimer, pingNow, speedNow, current, sinkCallers, sinkPoint,
                   emitted, dequeued, writeCalls, sincePingCall,
                   sinceSpeedCall, atStop>>

\* line 271, 273-274: self.ping_thread.join(timeout=5) returns when the thread
\* has ended or after 5 seconds; it raises when the thread was never started
\* (the error is logged and the second join is skipped).
JoinPing ==
    /\ mainPc = "join_ping"
    /\ IF pingPc = "idle"
         THEN /\ mainPc' = "done"
              /\ joinTimer' = 0
         ELSE /\ JoinReturns(pingPc, joinTimer)
              /\ mainPc' = "join_speed"
              /\ joinTimer' = JOIN_TIMEOUT
    /\ UNCHANGED <<running, last_ping, last_speedtest, metric_queue, pingPc, speedPc,
                   pingTimer, speedTimer, pingNow, speedNow, current, sinkCallers,
                   sinkPoint, emitted, dequeued, writeCalls, sincePingCall,
                   sinceSpeedCall, atStop>>

\* line 272-276: self.speedtest_thread.join(timeout=5), likewise; run() returns.
JoinSpeed ==
    /\ mainPc = "join_speed"
    /\ speedPc = "idle" \/ JoinReturns(speedPc, joinTimer)
    /\ mainPc' = "done"
    /\ joinTimer' = 0
    /\ UNCHANGED <<running, last_ping, last_speedtest, metric_queue, pingPc, speedPc,
                   pingTimer, speedTimer, pingNow, speedNow, current, sinkCallers,
                   sinkPoint, emitted, dequeued, writeCalls, sincePingCall,
                   sinceSpeedCall, atStop>>

\* ------------------------------------------------------------ specification
\* Spec: the clock is seen to advance Quantum seconds at a time.  A sleep or
\* timeout that expires inside a quantum ends at its end or later (time.sleep
\* and join(timeout) wait at least the time given), and a probe call takes a
\* whole number of quanta.
Quantum == SPEEDTEST_INTERVAL

Next ==
    \/ RunBegin
    \/ StartPing
    \/ StartSpeed
    \/ CollectorGet
    \/ CollectorWrite
    \/ CollectorWritten
    \/ CollectorLogged
    \/ Interrupt
    \/ Finally
    \/ JoinPing
    \/ JoinSpeed
    \/ PingCheck
    \/ PingCall
    \/ PingReturn
    \/ PingWake
    \/ SpeedCheck
    \/ SpeedCall
    \/ SpeedReturn
    \/ SpeedWake
    \/ Tick(Quantum)

Spec == Init /\ [][Next]_vars

\* SpecSpeedSeconds: the bandwidth loop second by second: no shutdown signal,
\* the clock advancing one second at a time, and the first ping3.ping call still
\* outstanding (it has not returned).
NextSpeedSeconds ==
    \/ RunBegin
    \/ StartPing
    \/ StartSpeed
    \/ CollectorGet
    \/ CollectorWrite
    \/ CollectorWritten
    \/ CollectorLogged
    \/ PingCheck
    \/ PingCall
    \/ SpeedCheck
    \/ SpeedCall
    \/ SpeedReturn
    \/ SpeedWake
    \/ Tick(1)

SpecSpeedSeconds == Init /\ [][NextSpeedSeconds]_vars

\* SpecPingSeconds: the latency loop second by second: no shutdown signal, the
\* clock advancing one second at a time, and the first speedtest run still
\* outstanding (it has not returned).
NextPingSeconds ==
    \/ RunBegin
    \/ StartPing
    \/ StartSpeed
    \/ CollectorGet
    \/ CollectorWrite
    \/ CollectorWritten
    \/ CollectorLogged
    \/ PingCheck
    \/ PingCall
    \/ PingReturn
    \/ PingWake
    \/ SpeedCheck
    \/ SpeedCall
    \/ Tick(1)

SpecPingSeconds == Init /\ [][NextPingSeconds]_vars

\* SpecShutdown: Spec with the scheduling the shutdown path of run() relies on:
\* the main thread keeps running (its steps after the signal are taken once
\* they can be) and time keeps passing.  Nothing is assumed of the workers.
SpecShutdown ==
    /\ Spec
    /\ WF_vars(Finally)
    /\ WF_vars(JoinPing)
    /\ WF_vars(JoinSpeed)
    /\ WF_vars(Tick(Quantum))

\* SpecWorkers: Spec with the scheduling the worker loops rely on: each worker
\* thread keeps running (its next step is taken once it can
\* be), a probe call in flight returns or raises, and time keeps passing so
\* that a sleep ends.  Nothing is assumed of the main thread.
SpecWorkers ==
    /\ Spec
    /\ WF_vars(PingCheck)
    /\ WF_vars(PingCall)
    /\ WF_vars(PingReturn)
    /\ WF_vars(PingWake)
    /\ WF_vars(SpeedCheck)
    /\ WF_vars(SpeedCall)
    /\ WF_vars(SpeedReturn)
    /\ WF_vars(SpeedWake)
    /\ WF_vars(Tick(Quantum))

\* SpecSteady: steady state: no shutdown signal arrives (so the finally block
\* of run() is never entered), and the main thread keeps being scheduled: each
\* of its steps is taken once it can be.  Nothing is assumed of the workers,
\* of the clock, or of what a sink write returns.
NextSteady ==
    \/ RunBegin
    \/ StartPing
    \/ StartSpeed
    \/ CollectorGet
    \/ CollectorWrite
    \/ CollectorWritten
    \/ CollectorLogged
    \/ PingCheck
    \/ PingCall
    \/ PingReturn
    \/ PingWake
    \/ SpeedCheck
    \/ SpeedCall
    \/ SpeedReturn
    \/ SpeedWake
    \/ Tick(Quantum)

SpecSteady ==
    /\ Init
    /\ [][NextSteady]_vars
    /\ WF_vars(RunBegin)
    /\ WF_vars(StartPing)
    /\ WF_vars(StartSpeed)
    /\ WF_vars(CollectorGet)
    /\ WF_vars(CollectorWrite)
    /\ WF_vars(CollectorWritten)
    /\ WF_vars(CollectorLogged)

\* ------------------------------------------------------------ properties
PingProbeBegins == pingPc # "probe" /\ pingPc' = "probe"

SpeedProbeBegins == speedPc # "probe" /\ speedPc' = "probe"

FlagCleared == mainPc \in {"join_ping", "join_speed", "done"}

\* C1: at most one execution context is inside influx_client.write at any
\* time, and it is the main thread: no worker ever is.
C1_OnlyCollectorWrites == sinkCallers \subseteq {"main"} /\ Cardinality(sinkCallers) <= 1

\* C1 witness: the main thread is inside the write while both workers are in
\* the middle of a probe.
C1_Witness == sinkCallers = {"main"} /\ pingPc = "probe" /\ speedPc = "probe"

\* C2: whenever a loop invokes its probe, the previous invocation of that
\* probe (if any) began at least the loop's interval earlier.
C2_ProbesAnIntervalApart ==
    [][ /\ PingProbeBegins =>
             (sincePingCall = None \/ sincePingCall >= PING_INTERVAL)
        /\ SpeedProbeBegins =>
             (sinceSpeedCall = None \/ sinceSpeedCall >= SPEEDTEST_INTERVAL) ]_vars

\* C3: once self.running has been set to False, no worker begins a probe call.
C3_NoProbeAfterStop ==
    [][ FlagCleared => ~PingProbeBegins /\ ~SpeedProbeBegins ]_vars

\* The capacity C4 speaks of.  The code configures none (Queue() has no
\* maxsize); the claim is stated for a capacity below the queue lengths explored.
ChannelCapacity == MaxQueue - 1

\* C4: the number of samples buffered in metric_queue never exceeds the
\* capacity of the channel.
C4_QueueWithinCapacity == Len(metric_queue) <= ChannelCapacity

\* C5: the collector takes the samples of each worker off the queue in the
\* order the worker put them: the n-th sample of a kind it dequeues is the n-th
\* that worker emitted.
C5_FifoPerWorker == current # NoSample => current.seq = dequeued[current.kind]

\* C5 witness: the second ping sample is dequeued after a speed sample was put
\* and dequeued in between.
C5_Witness ==
    /\ current.kind = "ping"
    /\ current.seq = 2
    /\ dequeued["speed"] >= 1

\* C6: a worker that has left its loop found the flag False: while
\* self.running is True neither worker has terminated, whatever its probes did.
C6_WorkersExitOnlyWhenStopped ==
    /\ pingPc = "done" => ~running
    /\ speedPc = "done" => ~running

\* C6 witness: both workers are back at the top of their loop, the flag still
\* True, after a probe of each that failed (no success recorded).
C6_Witness ==
    /\ running
    /\ pingPc = "check" /\ sincePingCall # None /\ last_ping = None
    /\ speedPc = "check" /\ sinceSpeedCall # None /\ last_speedtest = None

\* C7: at-most-once delivery.  At most one write call is issued per dequeued
\* sample; a sample that was dequeued is never on the queue again; when the
\* write returns or fails the collector drops the sample and leaves the queue
\* alone; after logging a failure it is back at the top of its loop.
C7_AtMostOnce ==
    [][ /\ \A k \in Kinds : writeCalls'[k] <= dequeued'[k]
        /\ \A i \in 1..Len(metric_queue') :
             metric_queue'[i].seq > dequeued'[metric_queue'[i].kind]
        /\ (mainPc = "write" /\ mainPc' # "write") =>
             (current' = NoSample /\ metric_queue' = metric_queue)
        /\ (mainPc = "write_failed" /\ mainPc' # "write_failed") =>
             mainPc' \in {"loop", "finally"} ]_vars

\* C7 witness: a write has just failed while a later sample is waiting.
C7_Witness ==
    /\ mainPc = "write_failed"
    /\ metric_queue # << >>
    /\ dequeued["ping"] + dequeued["speed"] >= 2

\* C8: every 'ping' sample on the channel carries a round-trip time that was
\* measured (ping3.ping returned a delay).
C8_PingSamplesMeasured ==
    \A i \in 1..Len(metric_queue) :
        metric_queue[i].kind = "ping" => metric_queue[i].probe = "reply"

\* C9: after the shutdown signal run() always reaches its end.
C9_ShutdownEnds == (mainPc = "finally") ~> (mainPc = "done")

\* C9 witness: run() has returned while the ping worker is still inside a
\* probe call and the speedtest worker has not exited either.
C9_Witness == mainPc = "done" /\ pingPc = "probe" /\ speedPc \notin {"idle", "done"}

\* C10: when run() returns, every sample that was on metric_queue when the
\* shutdown signal arrived has been dequeued.
C10_DrainedBeforeExit ==
    mainPc = "done" =>
        \A i \in 1..Len(atStop) : atStop[i].seq <= dequeued[atStop[i].kind]

\* Within the sample numbers and queue lengths explored.
PingMayPut == emitted["ping"] < MaxEmit /\ Len(metric_queue) < MaxQueue

SpeedMayPut == emitted["speed"] < MaxEmit /\ Len(metric_queue) < MaxQueue

\* C11: while the process lives, the next step of a worker is never held up
\* by the collector or by the other worker: the loop test, the call of the
\* probe and the return of the probe can be taken wherever the main thread and
\* the other worker are, a sleep ends once its time is over, and a probe that
\* measured a value can put its sample however long the sink write in progress
\* lasts.
C11_WorkersNeverBlocked ==
    mainPc # "done" =>
        /\ pingPc = "check" => ENABLED PingCheck
        /\ pingPc = "call" => ENABLED PingCall
        /\ pingPc = "probe" => ENABLED PingReturn
        /\ (pingPc = "probe" /\ PingMayPut) =>
              ENABLED (PingReturn /\ emitted'["ping"] = emitted["ping"] + 1)
        /\ (pingPc = "sleep" /\ pingTimer = 0) => ENABLED PingWake
        /\ speedPc = "check" => ENABLED SpeedCheck
        /\ speedPc = "call" => ENABLED SpeedCall
        /\ speedPc = "probe" => ENABLED SpeedReturn
        /\ (speedPc = "probe" /\ SpeedMayPut) =>
              ENABLED (SpeedReturn /\ emitted'["speed"] = emitted["speed"] + 1)
        /\ (speedPc = "sleep" /\ speedTimer = 0) => ENABLED SpeedWake

\* C11 witness: the collector is inside a sink write and the speedtest run has
\* been going on for a whole interval while ping3.ping is about to return a
\* value that can be put.
C11_Witness ==
    /\ mainPc = "write"
    /\ speedPc = "probe" /\ speedNow >= SPEEDTEST_INTERVAL
    /\ pingPc = "probe" /\ PingMayPut

\* The fields the sink write of a sample is to carry.
FieldsOfSample(s) ==
    IF s.kind = "ping" THEN {<<"ping_ms", s.value[1]>>}
    ELSE {<<"download_speed", s.value[1]>>, <<"upload_speed", s.value[2]>>}

\* The sample run() holds and has not yet issued the write for.
InHand(k) == IF mainPc = "got" /\ current.kind = k THEN 1 ELSE 0

\* A point is at the sink only during the write of the sample run() holds, and
\* it has exactly the fields of that sample.
WritesCarrySample ==
    /\ mainPc = "write" => current # NoSample /\ sinkPoint = FieldsOfSample(current)
    /\ sinkPoint # {} => mainPc = "write"

CollectorStopped == mainPc \in {"finally", "join_ping", "join_speed", "done"}

\* C12 as stated: exactly one sink write per dequeued sample (the number of
\* writes issued for a kind is the number of samples of that kind dequeued,
\* less the one in hand), each with exactly the fields of its sample.
C12_ExactlyOneWritePerSample ==
    /\ WritesCarrySample
    /\ \A k \in Kinds : writeCalls[k] = dequeued[k] - InHand(k)

\* C12 amended: every write carries exactly the fields of the sample in hand,
\* no write is issued without a dequeued sample, and while the collector loop
\* runs one write has been issued for every dequeued sample but the one in
\* hand; after the shutdown signal at most one dequeued sample (the one in hand
\* when the signal arrived) is left without a write.
C12_OneWritePerProcessedSample ==
    /\ WritesCarrySample
    /\ \A k \in Kinds : writeCalls[k] <= dequeued[k]
    /\ ~CollectorStopped => \A k \in Kinds : writeCalls[k] = dequeued[k] - InHand(k)
    /\ (dequeued["ping"] - writeCalls["ping"])
         + (dequeued["speed"] - writeCalls["speed"]) <= 1

\* C12 witness: the write of a 'speed' sample is in progress after the write
\* of a 'ping' sample.
C12_Witness ==
    /\ mainPc = "write"
    /\ current.kind = "speed"
    /\ sinkPoint = {<<"download_speed", 3>>, <<"upload_speed", 4>>}
    /\ writeCalls["ping"] >= 1

SpeedProbeEnds == speedPc = "probe" /\ speedPc' # "probe"

\* C13: a speedtest run that ends either puts one 'speed' sample, of a run in
\* which get_best_server, download and upload all returned, and records its
\* start time in last_speedtest, or (a step of it raised) puts nothing and
\* leaves last_speedtest and the queue as they were; either way the worker goes
\* on to its sleep.  No 'speed' sample on the queue is of a run that failed.
C13_FailedSpeedtestEmitsNothing ==
    [][ /\ SpeedProbeEnds =>
             /\ speedPc' = "sleep"
             /\ \/ /\ emitted'["speed"] = emitted["speed"] + 1
                   /\ Len(metric_queue') = Len(metric_queue) + 1
                   /\ SubSeq(metric_queue', 1, Len(metric_queue)) = metric_queue
                   /\ metric_queue'[Len(metric_queue')].kind = "speed"
                   /\ last_speedtest' = speedNow
                \/ /\ emitted' = emitted
                   /\ metric_queue' = metric_queue
                   /\ last_speedtest' = last_speedtest
        /\ \A i \in 1..Len(metric_queue') :
             metric_queue'[i].kind = "speed" =>
                 /\ metric_queue'[i].probe = "ok"
                 /\ metric_queue'[i].value[1] # None
                 /\ metric_queue'[i].value[2] # None ]_vars

\* C13 witness: a speedtest run has failed (it began and recorded nothing) and
\* the worker is in its sleep, the loop still running.
C13_Witness ==
    /\ running
    /\ speedPc = "sleep"
    /\ sinceSpeedCall # None
    /\ last_speedtest = None
    /\ emitted["speed"] = 0

\* The lifecycle state run() is in: 0 Idle (before line 231), 1 Running,
\* 2 Stopping (from the shutdown signal to the end of the joins), 3 Stopped.
Phase(pc) ==
    IF pc = "start" THEN 0
    ELSE IF pc \in {"spawn", "spawn2", "loop", "got", "write", "write_failed"} THEN 1
    ELSE IF pc \in {"finally", "join_ping", "join_speed"} THEN 2
    ELSE 3

PingProbeEnds == pingPc = "probe" /\ pingPc' # "probe"

\* A step of the clock: no thread moves, and the stored times are some seconds
\* older.
ClockStep ==
    /\ <<mainPc, pingPc, speedPc>>' = <<mainPc, pingPc, speedPc>>
    /\ \E d \in {1, Quantum} :
         /\ last_ping' = Older(last_ping, d, PING_INTERVAL)
         /\ last_speedtest' = Older(last_speedtest, d, SPEEDTEST_INTERVAL)

\* C15: last_ping is given a new value only by ping_worker, when its
\* ping3.ping call ends (the value is the now of that call), and
\* last_speedtest only by speedtest_worker, when its speedtest run ends; every
\* other step of either worker, of the collector loop and of the shutdown path
\* leaves both as they are (but for the passing of time).
C15_ProbeStateOwned ==
    [][ \/ ClockStep
        \/ /\ last_ping' # last_ping =>
                 (PingProbeEnds /\ last_ping' = pingNow /\ mainPc' = mainPc
                  /\ speedPc' = speedPc)
           /\ last_speedtest' # last_speedtest =>
                 (SpeedProbeEnds /\ last_speedtest' = speedNow /\ mainPc' = mainPc
                  /\ pingPc' = pingPc) ]_vars

\* C15 witness: both times are recorded, last_ping just now and last_speedtest
\* an interval ago, and the shutdown path has got as far as the second join.
C15_Witness ==
    /\ mainPc = "join_speed"
    /\ last_ping = 0
    /\ last_speedtest = SPEEDTEST_INTERVAL
    /\ dequeued["speed"] >= 1

\* C16: the first call a worker makes of get_ping_stats (get_speed_test) starts
\* the measurement, and no sleep of the worker comes before it.
C16_FirstTickMeasures ==
    [][ /\ (pingPc = "call" /\ pingPc' # "call" /\ sincePingCall = None) =>
             (pingPc' = "probe" /\ sincePingCall' = 0)
        /\ pingPc' = "sleep" => sincePingCall' # None
        /\ (speedPc = "call" /\ speedPc' # "call" /\ sinceSpeedCall = None) =>
             (speedPc' = "probe" /\ sinceSpeedCall' = 0)
        /\ speedPc' = "sleep" => sinceSpeedCall' # None ]_vars

\* C16 witness: the first measurement of each worker is in progress, begun
\* this very second, nothing recorded yet.
C16_Witness ==
    /\ pingPc = "probe" /\ sincePingCall = 0 /\ last_ping = None
    /\ speedPc = "probe" /\ sinceSpeedCall = 0 /\ last_speedtest = None
    /\ mainPc = "loop"

\* C17: the time recorded by a successful speedtest run is the time that run
\* began (not the time it ended), it is never older than the beginning of the
\* latest run, and a speedtest run begins only when none has been recorded or
\* the one recorded began at least SPEEDTEST_INTERVAL seconds ago.
C17_NoSpeedtestWithinInterval ==
    [][ /\ SpeedProbeBegins =>
             (last_speedtest = None \/ last_speedtest >= SPEEDTEST_INTERVAL)
        /\ (SpeedProbeEnds /\ emitted'["speed"] > emitted["speed"]) =>
             last_speedtest' = sinceSpeedCall
        /\ last_speedtest' # None => last_speedtest' >= sinceSpeedCall' ]_vars

\* C17 witness: the gate has just said skip, 59 seconds after the beginning of
\* the successful speedtest run, and the worker starts another one-second sleep.
C17_Witness ==
    /\ speedPc = "sleep"
    /\ speedTimer = SPEEDTEST_POLL
    /\ last_speedtest = SPEEDTEST_INTERVAL - 1
    /\ emitted["speed"] = 1

\* C18: in ping_worker the gate never says skip: every call of get_ping_stats
\* goes on to ping3.ping, because whenever the worker is about to call it,
\* either no ping is recorded or the one recorded began at least PING_INTERVAL
\* seconds ago.
C18_PingGateNeverSkips ==
    [][ /\ (pingPc = "call" /\ pingPc' # "call") =>
             (pingPc' = "probe" /\ sincePingCall' = 0)
        /\ pingPc' = "call" => (last_ping' = None \/ last_ping' >= PING_INTERVAL)
        /\ (pingPc = "sleep" /\ pingPc' # "sleep") => sincePingCall >= PING_INTERVAL ]_vars

\* C18 witness: the second ping3.ping call has just begun, an interval or more
\* after the first, which returned a value; the speedtest run has been going
\* on all the while.
C18_Witness ==
    /\ pingPc = "probe"
    /\ sincePingCall = 0
    /\ emitted["ping"] = 1
    /\ last_ping = PING_INTERVAL
    /\ sinceSpeedCall >= PING_INTERVAL + 2

\* C19: once self.running has been set to False, each worker thread that was
\* started leaves its loop (or the process ends first: run() has returned),
\* whatever the probe call in flight does when it returns.
C19_WorkersExitAfterStop ==
    FlagCleared ~>
        \/ mainPc = "done"
        \/ pingPc \in {"idle", "done"} /\ speedPc \in {"idle", "done"}

\* C19 witness: both workers have left their loops while run() is still in its
\* first join: ping_worker after a ping3.ping call that failed (nothing
\* recorded), speedtest_worker after a run that succeeded.
C19_Witness ==
    /\ mainPc = "join_ping"
    /\ pingPc = "done" /\ sincePingCall # None /\ last_ping = None
    /\ speedPc = "done" /\ last_speedtest # None

\* Every write is for a sample that was dequeued, and every dequeued sample
\* was put by a worker before.
WritesFromEmitted ==
    /\ \A k \in Kinds : writeCalls[k] <= dequeued[k] /\ dequeued[k] <= emitted[k]
    /\ current # NoSample =>
         (current.seq = dequeued[current.kind] /\ current.seq <= emitted[current.kind])
    /\ sinkPoint # {} => (current # NoSample /\ sinkPoint = FieldsOfSample(current))

\* C20: in steady state the n-th sample a worker puts is eventually dequeued
\* and a sink write is issued for it (the n-th write of that kind; there is
\* never more than one write per dequeued sample), and every write is for a
\* sample a worker put before.
C20_SteadyStateDelivers ==
    /\ []WritesFromEmitted
    /\ \A k \in Kinds : \A n \in 1..MaxEmit :
         (emitted[k] >= n) ~> (dequeued[k] >= n /\ writeCalls[k] >= n)

\* C20 witness: two samples of each kind have been put and all four written,
\* the queue is empty again and the collector is back in its wait.
C20_Witness ==
    /\ mainPc = "loop"
    /\ metric_queue = << >>
    /\ running
    /\ \A k \in Kinds : emitted[k] = 2 /\ writeCalls[k] = 2

====
